---- MODULE Spec2Model ----
(***************************************************************************)
(* A model of reference_code/nick/model/train_toy.py: the __main__ block,  *)
(* train(args, writer) and run_model(...).  The script is sequential; pc   *)
(* is the position of the single thread of control.  The tensor framework, *)
(* the data loaders and the model registry are external collaborators:     *)
(* what they return (class counts, number of batches, per-batch loss) is   *)
(* drawn from small sets.                                                   *)
(***************************************************************************)
EXTENDS Integers, Sequences, FiniteSets, TLC

\* ---------------------------------------------------------------- bounds
\* the largest --epochs value tried
MaxEpochs == 2
\* the most batches the train and valid loaders hold together
MaxBatches == 3

\* values the external collaborators can produce
ClassCounts == {2, 3}
Losses == {1, 2}

\* ------------------------------------------------------- lookup tables
\* optimizers = {'adam': optim.Adam, 'rmsprop': optim.RMSprop}
optimizers == {"adam", "rmsprop"}

\* the registry imported by `from models import *`; the script itself
\* names 'alexnet' (the default), 'lrcn' and 'mtolstm'
model_dict == {"alexnet", "lrcn", "mtolstm"}

\* command lines the parser accepts (the flags the control flow reads)
ModelArgs == model_dict \cup {"resnet99"}
OptimizerArgs == optimizers \cup {"sgd"}
ViewArgs == {"sagittal", "all"}
SeqArgs == {"None", "max"}
EpochsArgs == -1 .. MaxEpochs

\* the namespaces parse_args can return for the given flag values
get_parser(models, optims, views, seqs, epochs) ==
    [model : models, optimizer : optims, view : views, seq : seqs,
     epochs : epochs, plot : BOOLEAN, verbose : BOOLEAN]

\* every command line, for runs of at most one epoch
AnyArgs == get_parser(ModelArgs, OptimizerArgs, ViewArgs, SeqArgs, -1 .. 1)

\* command lines that pass the checks of the main block and of train, for
\* runs of up to MaxEpochs epochs
LongRunArgs ==
    get_parser({"alexnet", "lrcn"}, {"adam"}, {"sagittal"}, {"None"}, EpochsArgs)

\* ------------------------------------------------------------ rationals
\* a loss value is a fraction <<numerator, denominator>> in lowest terms;
\* <<1, 0>> is float('Inf') and <<0, 0>> stands for "no value"
RECURSIVE GCD(_, _)
GCD(a, b) == IF b = 0 THEN a ELSE GCD(b, a % b)

Frac(n, d) == LET g == GCD(n, d) IN <<n \div g, d \div g>>

Inf == <<1, 0>>
NoValue == <<0, 0>>

\* a < b on fractions (b may be Inf)
Less(a, b) == a[1] * b[2] < b[1] * a[2]

VARIABLES
    pc,            \* position of the thread of control
    err,           \* the exception that ended the run, "none" while running
    args,          \* the argparse namespace
    args_json,     \* the sequence of dumps written to rundir/args.json
    plot_dir,      \* rundir/plots exists
    writer,        \* the SummaryWriter has been created
    loaders,       \* what load_data returned
    model,         \* the network: built, mode, parameter version
    optimizer,     \* the optimizer: built, zero_grad and step counts
    scheduler,     \* ReduceLROnPlateau: built, the metrics it was stepped with
    train_locals,  \* train's locals: epoch, losses, lists, best_val_loss
    checkpoints,   \* the file names torch.save wrote, in order
    plots,         \* number of times plots/loss was saved
    rm,            \* the frame of the running run_model call
    ret,           \* the value the last run_model call returned
    events         \* history: what train did, in order

vars == <<pc, err, args, args_json, plot_dir, writer, loaders, model,
          optimizer, scheduler, train_locals, checkpoints, plots, rm, ret,
          events>>

NoLoaders ==
    [loaded |-> FALSE,
     train |-> [num_classes |-> 0, batches |-> 0],
     valid |-> [num_classes |-> 0, batches |-> 0],
     test |-> [num_classes |-> 0],
     rad |-> [num_classes |-> 0]]

NoFrame ==
    [active |-> FALSE, loader |-> "none", train |-> FALSE,
     optimizer |-> "None", seq |-> "None", avg_loss |-> 0,
     num_batches |-> 0, next |-> 0, losses |-> <<>>, log |-> <<>>,
     params0 |-> 0, steps0 |-> 0, zero_grads0 |-> 0]

NoLocals ==
    [epoch |-> 0, train_loss |-> NoValue, val_loss |-> NoValue,
     train_losses |-> <<>>, valid_losses |-> <<>>, epochs |-> <<>>,
     best_val_loss |-> Inf]

Start(command_lines) ==
    /\ pc = "parse_args"
    /\ err = "none"
    /\ args \in command_lines
    /\ args_json = <<>>
    /\ plot_dir = FALSE
    /\ writer = FALSE
    /\ loaders = NoLoaders
    /\ model = [built |-> FALSE, mode |-> "none", params |-> 0, hidden |-> 0]
    /\ optimizer = [built |-> FALSE, zero_grads |-> 0, steps |-> 0]
    /\ scheduler = [built |-> FALSE, metrics |-> <<>>]
    /\ train_locals = NoLocals
    /\ checkpoints = <<>>
    /\ plots = 0
    /\ rm = NoFrame
    /\ ret = NoValue
    /\ events = <<>>

Init == Start(AnyArgs)

InitLong == Start(LongRunArgs)

Raise(e) == pc' = "error" /\ err' = e

\* ------------------------------------------------------- __main__ block
\* a main block that keeps the parsed verbose flag
ForceVerbose_kept ==
    /\ pc = "parse_args"
    /\ pc' = "dump_args"
    /\ UNCHANGED <<err, args, args_json, plot_dir, writer, loaders, model,
                   optimizer, scheduler, train_locals, checkpoints, plots, rm,
                   ret, events>>

\* args = get_parser().parse_args(); args.verbose = False; seeding
ForceVerbose ==
    /\ pc = "parse_args"
    /\ args' = [args EXCEPT !.verbose = FALSE]
    /\ pc' = "dump_args"
    /\ UNCHANGED <<err, args_json, plot_dir, writer, loaders, model, optimizer,
                   scheduler, train_locals, checkpoints, plots, rm, ret, events>>

\* with open(rundir / "args.json", 'w') as out: json.dump(vars(args), out)
DumpArgs ==
    /\ pc = "dump_args"
    /\ args_json' = Append(args_json, args)
    /\ pc' = "plot_dir"
    /\ UNCHANGED <<err, args, plot_dir, writer, loaders, model, optimizer,
                   scheduler, train_locals, checkpoints, plots, rm, ret, events>>

\* if args.plot: plot_dir.mkdir(exist_ok=True); writer = SummaryWriter(...)
MakePlotDir ==
    /\ pc = "plot_dir"
    /\ plot_dir' = args.plot
    /\ writer' = TRUE
    /\ pc' = "check_view"
    /\ UNCHANGED <<err, args, args_json, loaders, model, optimizer, scheduler,
                   train_locals, checkpoints, plots, rm, ret, events>>

\* a view check with the comparison inverted
CheckView_inverted ==
    /\ pc = "check_view"
    /\ IF args.view # "all"
          THEN Raise("ValueError_view")
          ELSE pc' = "load_data" /\ err' = err
    /\ UNCHANGED <<args, args_json, plot_dir, writer, loaders, model, optimizer,
                   scheduler, train_locals, checkpoints, plots, rm, ret, events>>

\* if args.view == 'all': raise ValueError(...); train(args, writer)
CheckView ==
    /\ pc = "check_view"
    /\ IF args.view = "all"
          THEN Raise("ValueError_view")
          ELSE pc' = "load_data" /\ err' = err
    /\ UNCHANGED <<args, args_json, plot_dir, writer, loaders, model, optimizer,
                   scheduler, train_locals, checkpoints, plots, rm, ret, events>>

\* ------------------------------------------------------------- train
\* train_loader, valid_loader, test_loader, rad_loader = load_data(args)
LoadData ==
    /\ pc = "load_data"
    /\ \E ct \in ClassCounts, cv \in ClassCounts, cs \in ClassCounts,
          cr \in ClassCounts, nt \in 0 .. MaxBatches, nv \in 0 .. MaxBatches :
          /\ nt + nv <= MaxBatches
          /\ loaders' = [loaded |-> TRUE,
                      train |-> [num_classes |-> ct, batches |-> nt],
                      valid |-> [num_classes |-> cv, batches |-> nv],
                      test |-> [num_classes |-> cs],
                      rad |-> [num_classes |-> cr]]
    /\ pc' = "check_model"
    /\ UNCHANGED <<err, args, args_json, plot_dir, writer, model, optimizer,
                   scheduler, train_locals, checkpoints, plots, rm, ret, events>>

\* a train that forgets the registry check and goes on to build the model
CheckModel_unchecked ==
    /\ pc = "check_model"
    /\ pc' = "set_seq"
    /\ UNCHANGED <<err, args, args_json, plot_dir, writer, loaders, model,
                   optimizer, scheduler, train_locals, checkpoints, plots, rm,
                   ret, events>>

\* if args.model not in model_dict: raise ValueError(...)
CheckModel ==
    /\ pc = "check_model"
    /\ IF args.model \notin model_dict
          THEN Raise("ValueError_model")
          ELSE pc' = "set_seq" /\ err' = err
    /\ UNCHANGED <<args, args_json, plot_dir, writer, loaders, model, optimizer,
                   scheduler, train_locals, checkpoints, plots, rm, ret, events>>

\* if args.model == 'lrcn' or args.model == 'mtolstm': args.seq = 'lstm'
SetSeq ==
    /\ pc = "set_seq"
    /\ args' = IF args.model = "lrcn" \/ args.model = "mtolstm"
                  THEN [args EXCEPT !.seq = "lstm"]
                  ELSE args
    /\ pc' = "assert_classes"
    /\ UNCHANGED <<err, args_json, plot_dir, writer, loaders, model, optimizer,
                   scheduler, train_locals, checkpoints, plots, rm, ret, events>>

\* an assertion that compares only the train and valid splits
SameClasses_train_valid ==
    loaders.train.num_classes = loaders.valid.num_classes

\* assert train.num_classes == valid.num_classes == test.num_classes
SameClasses ==
    /\ loaders.train.num_classes = loaders.valid.num_classes
    /\ loaders.valid.num_classes = loaders.test.num_classes

AssertClasses ==
    /\ pc = "assert_classes"
    /\ IF SameClasses
          THEN pc' = "build_model" /\ err' = err
          ELSE Raise("AssertionError_classes")
    /\ UNCHANGED <<args, args_json, plot_dir, writer, loaders, model, optimizer,
                   scheduler, train_locals, checkpoints, plots, rm, ret, events>>

\* model = model_dict[args.model](...); model = model.cuda(); criteria
BuildModel ==
    /\ pc = "build_model"
    /\ model' = [model EXCEPT !.built = TRUE]
    /\ pc' = "check_optimizer"
    /\ UNCHANGED <<err, args, args_json, plot_dir, writer, loaders, optimizer,
                   scheduler, train_locals, checkpoints, plots, rm, ret, events>>

\* a train that looks the optimizer up only after the loop has been set up
CheckOptimizer_unchecked ==
    /\ pc = "check_optimizer"
    /\ pc' = "build_optimizer"
    /\ UNCHANGED <<err, args, args_json, plot_dir, writer, loaders, model,
                   optimizer, scheduler, train_locals, checkpoints, plots, rm,
                   ret, events>>

\* if args.optimizer not in optimizers: raise ValueError(...)
CheckOptimizer ==
    /\ pc = "check_optimizer"
    /\ IF args.optimizer \notin optimizers
          THEN Raise("ValueError_optimizer")
          ELSE pc' = "build_optimizer" /\ err' = err
    /\ UNCHANGED <<args, args_json, plot_dir, writer, loaders, model, optimizer,
                   scheduler, train_locals, checkpoints, plots, rm, ret, events>>

\* optimizer = optimizers[...](...); scheduler = ReduceLROnPlateau(...);
\* train_losses = []; valid_losses = []; epochs = []; best_val_loss = Inf
BuildOptimizer ==
    /\ pc = "build_optimizer"
    /\ optimizer' = [optimizer EXCEPT !.built = TRUE]
    /\ scheduler' = [scheduler EXCEPT !.built = TRUE]
    /\ train_locals' = NoLocals
    /\ pc' = "epoch_loop"
    /\ UNCHANGED <<err, args, args_json, plot_dir, writer, loaders, model,
                   checkpoints, plots, rm, ret, events>>

\* --------------------------------------------------------- run_model
Event(e, x) == [ev |-> e, epoch |-> train_locals.epoch, x |-> x]

\* the frame of run_model(model, loader, criterion, train=..., optimizer=...,
\* seq=...) at its call
Call(loader, train, opt, seq) ==
    [active |-> TRUE, loader |-> loader, train |-> train, optimizer |-> opt,
     seq |-> seq, avg_loss |-> 0, num_batches |-> 0, next |-> 0,
     losses |-> <<>>, log |-> <<>>, params0 |-> model.params,
     steps0 |-> optimizer.steps, zero_grads0 |-> optimizer.zero_grads]

\* if train: model.train() else: model.eval(); avg_loss = 0.0; num_batches = 0
RmEnter ==
    /\ pc = "rm_enter"
    /\ model' = [model EXCEPT !.mode = IF rm.train THEN "train" ELSE "eval"]
    /\ rm' = [rm EXCEPT !.avg_loss = 0, !.num_batches = 0]
    /\ pc' = "rm_loop"
    /\ UNCHANGED <<err, args, args_json, plot_dir, writer, loaders, optimizer,
                   scheduler, train_locals, checkpoints, plots, ret, events>>

\* a batch loop whose backward pass and optimizer step are not under `if train`
BatchOps_unguarded(train, seq) ==
    (IF train THEN <<"zero_grad">> ELSE <<>>)
    \o (IF seq = "lstm" THEN <<"init_hidden">> ELSE <<>>)
    \o <<"forward", "loss", "backward", "step">>

\* the operations one iteration of `for batch in loader` performs, in order
BatchOps(train, seq) ==
    (IF train THEN <<"zero_grad">> ELSE <<>>)
    \o (IF seq = "lstm" THEN <<"init_hidden">> ELSE <<>>)
    \o <<"forward", "loss">>
    \o (IF train THEN <<"backward", "step">> ELSE <<>>)

Count(ops, op) == Cardinality({i \in 1 .. Len(ops) : ops[i] = op})

\* one iteration of the batch loop; batch_loss is what the criterion returns
RmBatch ==
    /\ pc = "rm_loop"
    /\ rm.next < loaders[rm.loader].batches
    /\ \E batch_loss \in Losses :
          LET ops == BatchOps(rm.train, rm.seq) IN
          /\ rm' = [rm EXCEPT !.next = @ + 1,
                              !.avg_loss = @ + batch_loss,
                              !.num_batches = @ + 1,
                              !.losses = Append(@, batch_loss),
                              !.log = @ \o ops]
          /\ optimizer' = [optimizer EXCEPT
                              !.zero_grads = @ + Count(ops, "zero_grad"),
                              !.steps = @ + Count(ops, "step")]
          /\ model' = [model EXCEPT
                          !.hidden = @ + Count(ops, "init_hidden"),
                          !.params = @ + Count(ops, "step")]
    /\ UNCHANGED <<pc, err, args, args_json, plot_dir, writer, loaders,
                   scheduler, train_locals, checkpoints, plots, ret, events>>

\* an average taken over one batch too many
Average_off_by_one(avg_loss, num_batches) == Frac(avg_loss, num_batches + 1)

\* avg_loss /= num_batches
Average(avg_loss, num_batches) == Frac(avg_loss, num_batches)

\* a run_model that returns 0 for a loader without batches
RmReturn_guarded ==
    /\ pc = "rm_loop"
    /\ rm.next = loaders[rm.loader].batches
    /\ ret' = IF rm.num_batches = 0 THEN <<0, 1>>
                                     ELSE Average(rm.avg_loss, rm.num_batches)
    /\ pc' = IF rm.loader = "train" THEN "after_train" ELSE "after_valid"
    /\ UNCHANGED <<err, args, args_json, plot_dir, writer, loaders, model,
                   optimizer, scheduler, train_locals, checkpoints, plots, rm,
                   events>>

\* avg_loss /= num_batches; return avg_loss.data[0]
RmReturn ==
    /\ pc = "rm_loop"
    /\ rm.next = loaders[rm.loader].batches
    /\ IF rm.num_batches = 0
          THEN Raise("ZeroDivisionError") /\ ret' = ret
          ELSE /\ ret' = Average(rm.avg_loss, rm.num_batches)
               /\ pc' = IF rm.loader = "train" THEN "after_train" ELSE "after_valid"
               /\ err' = err
    /\ UNCHANGED <<args, args_json, plot_dir, writer, loaders, model, optimizer,
                   scheduler, train_locals, checkpoints, plots, rm, events>>

\* ------------------------------------------------- train: the epoch loop
\* for epoch in range(args.epochs): train_loss = run_model(..., train=True,
\* optimizer=optimizer, seq=args.seq, ...)
EpochLoop ==
    /\ pc = "epoch_loop"
    /\ IF train_locals.epoch < args.epochs
          THEN /\ rm' = Call("train", TRUE, "optimizer", args.seq)
               /\ events' = Append(events, Event("train_start", NoValue))
               /\ pc' = "rm_enter"
          ELSE /\ pc' = "done"
               /\ UNCHANGED <<rm, events>>
    /\ UNCHANGED <<err, args, args_json, plot_dir, writer, loaders, model,
                   optimizer, scheduler, train_locals, checkpoints, plots, ret>>

\* train_loss = <returned>; val_loss = run_model(model, valid_loader,
\* valid_criterion, epoch=epoch, writer=writer, seq=args.seq, ...)
AfterTrainPass ==
    /\ pc = "after_train"
    /\ train_locals' = [train_locals EXCEPT !.train_loss = ret]
    /\ rm' = Call("valid", FALSE, "None", args.seq)
    /\ events' = events \o <<Event("train_end", ret), Event("valid_start", NoValue)>>
    /\ pc' = "rm_enter"
    /\ UNCHANGED <<err, args, args_json, plot_dir, writer, loaders, model,
                   optimizer, scheduler, checkpoints, plots, ret>>

\* val_loss = <returned>; train_losses.append(train_loss);
\* valid_losses.append(val_loss); epochs.append(epoch)
AfterValidPass ==
    /\ pc = "after_valid"
    /\ train_locals' = [train_locals EXCEPT
                           !.val_loss = ret,
                           !.train_losses = Append(@, train_locals.train_loss),
                           !.valid_losses = Append(@, ret),
                           !.epochs = Append(@, train_locals.epoch)]
    /\ rm' = NoFrame
    /\ events' = Append(events, Event("valid_end", ret))
    /\ pc' = "plot"
    /\ UNCHANGED <<err, args, args_json, plot_dir, writer, loaders, model,
                   optimizer, scheduler, checkpoints, plots, ret>>

\* if args.plot: plt.plot(...); plt.savefig(str(plot_dir / "loss"))
Plot ==
    /\ pc = "plot"
    /\ IF args.plot
          THEN /\ plots' = plots + 1
               /\ events' = Append(events, Event("plot", NoValue))
          ELSE UNCHANGED <<plots, events>>
    /\ pc' = "sched_step"
    /\ UNCHANGED <<err, args, args_json, plot_dir, writer, loaders, model,
                   optimizer, scheduler, train_locals, checkpoints, rm, ret>>

\* a scheduler stepped with the training loss
SchedStep_train_loss ==
    /\ pc = "sched_step"
    /\ scheduler' = [scheduler EXCEPT !.metrics = Append(@, train_locals.train_loss)]
    /\ train_locals' = [train_locals EXCEPT !.best_val_loss =
                           IF Less(train_locals.val_loss, @)
                              THEN train_locals.val_loss ELSE @]
    /\ events' = Append(events, Event("sched_step", train_locals.train_loss))
    /\ pc' = "save"
    /\ UNCHANGED <<err, args, args_json, plot_dir, writer, loaders, model,
                   optimizer, checkpoints, plots, rm, ret>>

\* scheduler.step(val_loss); if val_loss < best_val_loss: best_val_loss = val_loss
SchedStep ==
    /\ pc = "sched_step"
    /\ scheduler' = [scheduler EXCEPT !.metrics = Append(@, train_locals.val_loss)]
    /\ train_locals' = [train_locals EXCEPT !.best_val_loss =
                           IF Less(train_locals.val_loss, @)
                              THEN train_locals.val_loss ELSE @]
    /\ events' = Append(events, Event("sched_step", train_locals.val_loss))
    /\ pc' = "save"
    /\ UNCHANGED <<err, args, args_json, plot_dir, writer, loaders, model,
                   optimizer, checkpoints, plots, rm, ret>>

\* a file name that carries the 0-based loop index
file_name_zero_based(val_loss, train_loss, epoch) ==
    [val |-> val_loss, train |-> train_loss, epoch |-> epoch]

\* file_name = f'val{val_loss}_train{train_loss}_epoch{epoch+1}'
file_name(val_loss, train_loss, epoch) ==
    [val |-> val_loss, train |-> train_loss, epoch |-> epoch + 1]

\* torch.save(model.state_dict(), rundir / file_name); next iteration
SaveCheckpoint ==
    /\ pc = "save"
    /\ checkpoints' = Append(checkpoints,
                             file_name(train_locals.val_loss,
                                       train_locals.train_loss,
                                       train_locals.epoch))
    /\ events' = Append(events, Event("checkpoint", train_locals.val_loss))
    /\ train_locals' = [train_locals EXCEPT !.epoch = @ + 1]
    /\ pc' = "epoch_loop"
    /\ UNCHANGED <<err, args, args_json, plot_dir, writer, loaders, model,
                   optimizer, scheduler, plots, rm, ret>>

Next ==
    \/ ForceVerbose
    \/ DumpArgs
    \/ MakePlotDir
    \/ CheckView
    \/ LoadData
    \/ CheckModel
    \/ SetSeq
    \/ AssertClasses
    \/ BuildModel
    \/ CheckOptimizer
    \/ BuildOptimizer
    \/ EpochLoop
    \/ RmEnter
    \/ RmBatch
    \/ RmReturn
    \/ AfterTrainPass
    \/ AfterValidPass
    \/ Plot
    \/ SchedStep
    \/ SaveCheckpoint

\* every command line, runs of at most one epoch
Spec == Init /\ [][Next]_vars

\* valid command lines, runs of up to MaxEpochs epochs
SpecLong == InitLong /\ [][Next]_vars

\* ====================================================== the claims
\* train has been called and load_data has returned
TrainEntered == loaders.loaded

\* nothing of the epoch loop has happened: no pass, no step, no checkpoint
NothingTrained ==
    /\ events = <<>>
    /\ optimizer.steps = 0
    /\ scheduler.metrics = <<>>
    /\ checkpoints = <<>>

\* C1: when train is called with args.model outside the model registry it
\* raises ValueError, and at that point no model has been constructed, no
\* training or validation pass has run and no checkpoint has been written.
C1_UnsupportedModelRaises ==
    /\ (TrainEntered /\ args.model \notin {"alexnet", "lrcn", "mtolstm"}) =>
          /\ pc \in {"check_model", "error"}
          /\ pc = "error" => err = "ValueError_model"
          /\ ~model.built
          /\ NothingTrained
    /\ err = "ValueError_model" =>
          args.model \notin {"alexnet", "lrcn", "mtolstm"}

C1_Witness ==
    /\ pc = "error"
    /\ err = "ValueError_model"
    /\ args.model = "resnet99"

\* C2: when train is called with args.optimizer neither 'adam' nor 'rmsprop'
\* and the model and class-count checks pass, it raises ValueError; no epoch
\* is started, no optimizer step is taken and no checkpoint is written.
C2_UnsupportedOptimizerRaises ==
    /\ (model.built /\ args.optimizer \notin {"adam", "rmsprop"}) =>
          /\ pc \in {"check_optimizer", "error"}
          /\ pc = "error" => err = "ValueError_optimizer"
          /\ ~optimizer.built
          /\ NothingTrained
    /\ err = "ValueError_optimizer" =>
          (model.built /\ args.optimizer \notin {"adam", "rmsprop"})

C2_Witness ==
    /\ pc = "error"
    /\ err = "ValueError_optimizer"
    /\ args.optimizer = "sgd"
    /\ model.built

\* C3 as stated: the model is built and the loop runs only if all four
\* loaders load_data returned (train, valid, test and rad) report the same
\* class count.
C3_AllFourSplitsAgree ==
    (model.built \/ events # <<>> \/ checkpoints # <<>>) =>
        /\ loaders.train.num_classes = loaders.valid.num_classes
        /\ loaders.valid.num_classes = loaders.test.num_classes
        /\ loaders.test.num_classes = loaders.rad.num_classes

\* C3 amended: the model is built and the loop runs only if the train, valid and
\* test loaders report the same class count (the rad loader is not compared);
\* if one of these three differs the assertion fails, and no model is built, no
\* epoch runs and no checkpoint is written.
C3_TrainValidTestAgree ==
    /\ (model.built \/ events # <<>> \/ checkpoints # <<>>) =>
          /\ loaders.train.num_classes = loaders.valid.num_classes
          /\ loaders.valid.num_classes = loaders.test.num_classes
    /\ ( /\ TrainEntered
         /\ \/ loaders.train.num_classes # loaders.valid.num_classes
            \/ loaders.valid.num_classes # loaders.test.num_classes ) =>
          /\ pc \in {"check_model", "set_seq", "assert_classes", "error"}
          /\ pc = "error" => err \in {"ValueError_model", "AssertionError_classes"}
          /\ ~model.built
          /\ NothingTrained
    /\ err = "AssertionError_classes" =>
          \/ loaders.train.num_classes # loaders.valid.num_classes
          \/ loaders.valid.num_classes # loaders.test.num_classes

C3_Witness ==
    /\ pc = "error"
    /\ err = "AssertionError_classes"
    /\ loaders.train.num_classes = loaders.valid.num_classes
    /\ loaders.test.num_classes # loaders.valid.num_classes

\* C5 as stated: the script ends in an error only for an unsupported model
\* name, an unsupported optimizer name or a class-count mismatch.
C5_OnlyThreeErrors ==
    err # "none" =>
        err \in {"ValueError_model", "ValueError_optimizer",
                 "AssertionError_classes"}

\* C5 amended: the script raises in four situations of its own: args.view ==
\* 'all' (in the main block, before train is called), an unsupported model
\* name, a class-count mismatch between the train, valid and test splits, and
\* an unsupported optimizer name; the only other error of its code is the
\* division by zero of run_model on a loader without batches.
C5_ErrorOutcomes ==
    /\ (pc = "error") = (err # "none")
    /\ err \in {"none", "ValueError_view", "ValueError_model",
                "AssertionError_classes", "ValueError_optimizer",
                "ZeroDivisionError"}
    /\ err = "ValueError_view" => (args.view = "all" /\ ~TrainEntered)
    /\ (args.view = "all") =>
          (pc \in {"parse_args", "dump_args", "plot_dir", "check_view", "error"}
           /\ err \in {"none", "ValueError_view"})
    /\ err = "ValueError_model" => args.model \notin {"alexnet", "lrcn", "mtolstm"}
    /\ err = "AssertionError_classes" =>
          \/ loaders.train.num_classes # loaders.valid.num_classes
          \/ loaders.valid.num_classes # loaders.test.num_classes
    /\ err = "ValueError_optimizer" => args.optimizer \notin {"adam", "rmsprop"}
    /\ err = "ZeroDivisionError" =>
          \/ loaders.train.batches = 0
          \/ loaders.valid.batches = 0

C5_Witness ==
    /\ pc = "error"
    /\ err = "ValueError_view"
    /\ args.view = "all"
    /\ args.model \in {"alexnet", "lrcn", "mtolstm"}
    /\ args.optimizer \in {"adam", "rmsprop"}
    /\ Len(args_json) = 1

\* what train does in one epoch, in order
EpochPattern ==
    IF args.plot
       THEN <<"train_start", "train_end", "valid_start", "valid_end", "plot",
              "sched_step", "checkpoint">>
       ELSE <<"train_start", "train_end", "valid_start", "valid_end",
              "sched_step", "checkpoint">>

\* the event at place k (1-based) of epoch e (0-based)
EventAt(e, k) == events[e * Len(EpochPattern) + k]

\* C4: when train with args.epochs = N has completed without error, exactly N
\* checkpoints have been written (none for N <= 0), in epoch order; the e-th is
\* named with the validation loss and the training loss the passes of that epoch
\* returned and with the number e, so the numbers are 1..N.
C4_OneCheckpointPerEpoch ==
    /\ Len(checkpoints) = train_locals.epoch
    /\ pc = "done" =>
          Len(checkpoints) = (IF args.epochs > 0 THEN args.epochs ELSE 0)
    /\ \A e \in 1 .. Len(checkpoints) :
          /\ checkpoints[e].epoch = e
          /\ EventAt(e - 1, 2) = [ev |-> "train_end", epoch |-> e - 1,
                                   x |-> checkpoints[e].train]
          /\ EventAt(e - 1, 4) = [ev |-> "valid_end", epoch |-> e - 1,
                                   x |-> checkpoints[e].val]

\* a complete run of two epochs whose second validation loss did not improve
C4_Witness ==
    /\ pc = "done"
    /\ args.epochs = 2
    /\ Len(checkpoints) = 2
    /\ ~Less(checkpoints[2].val, checkpoints[1].val)
    /\ checkpoints[1].val # checkpoints[1].train

\* C6 as stated: args.json is written exactly once and before train is entered,
\* and once training has started (a pass has begun, a checkpoint or a plot
\* exists) what it holds are the arguments in force.
C6_ArgsJsonIsArgsInForce ==
    (events # <<>> \/ checkpoints # <<>> \/ plots > 0) =>
        /\ Len(args_json) = 1
        /\ args_json[1] = args

\* C6 amended: args.json is written exactly once per run and before train is
\* entered, so whenever a checkpoint or a loss plot exists it has been written;
\* it holds the arguments in force when train is entered, with verbose False.
\* train afterwards sets args.seq to 'lstm' for the models 'lrcn' and 'mtolstm',
\* which the file does not show; every other argument stays as written.
C6_ArgsJsonWrittenOnceBeforeTrain ==
    /\ Len(args_json) <= 1
    /\ pc \notin {"parse_args", "dump_args"} => Len(args_json) = 1
    /\ (TrainEntered \/ pc = "load_data" \/ checkpoints # <<>> \/ plots > 0) =>
          /\ Len(args_json) = 1
          /\ args_json[1].verbose = FALSE
          /\ args_json[1] = [args EXCEPT !.seq = args_json[1].seq]
          /\ pc \in {"load_data", "check_model", "set_seq"} => args_json[1] = args
          /\ args_json[1].seq # args.seq =>
                (args.model \in {"lrcn", "mtolstm"} /\ args.seq = "lstm")

C6_Witness ==
    /\ checkpoints # <<>>
    /\ plots > 0
    /\ Len(args_json) = 1
    /\ args_json[1] = args

\* log repeats pattern, whole, n times
Repeats(log, pattern, n) ==
    LET k == Len(pattern)
    IN /\ Len(log) = n * k
       /\ \A i \in 1 .. Len(log) : log[i] = pattern[((i - 1) % k) + 1]

\* the lstm hidden-state reset, which precedes the forward pass when seq is 'lstm'
Hidden(seq) == IF seq = "lstm" THEN <<"init_hidden">> ELSE <<>>

\* C7: a run_model call with train=False executes no zero_grad, no backward and
\* no optimizer step and leaves the model parameters unchanged; a call with
\* train=True executes, for every batch, zero_grad, forward, loss, backward and
\* optimizer step once each in this order, and takes as many optimizer steps
\* as the loader yielded batches.
C7_BackpropOnlyWhenTraining ==
    rm.active =>
        /\ ~rm.train =>
              /\ Repeats(rm.log, Hidden(rm.seq) \o <<"forward", "loss">>,
                         rm.num_batches)
              /\ model.params = rm.params0
              /\ optimizer.steps = rm.steps0
              /\ optimizer.zero_grads = rm.zero_grads0
        /\ rm.train =>
              /\ Repeats(rm.log,
                         <<"zero_grad">> \o Hidden(rm.seq)
                            \o <<"forward", "loss", "backward", "step">>,
                         rm.num_batches)
              /\ optimizer.steps = rm.steps0 + rm.num_batches
              /\ optimizer.zero_grads = rm.zero_grads0 + rm.num_batches
              /\ model.params = rm.params0 + rm.num_batches
        /\ pc \in {"after_train", "after_valid"} =>
              rm.num_batches = loaders[rm.loader].batches

\* a validation pass of two batches has returned after a training pass stepped
C7_Witness ==
    /\ pc = "after_valid"
    /\ ~rm.train
    /\ rm.num_batches = 2
    /\ model.params >= 1
    /\ optimizer.steps = model.params

\* C8: in every epoch the training pass comes first, then the validation pass
\* (train=False, no optimizer), then one scheduler.step with that epoch's
\* validation loss, then the checkpoint; the next epoch's training pass starts
\* only after the checkpoint, and the scheduler is stepped once per epoch.
C8_EpochOrder ==
    /\ LET pattern == EpochPattern
           k == Len(pattern)
       IN \A i \in 1 .. Len(events) :
             /\ events[i].ev = pattern[((i - 1) % k) + 1]
             /\ events[i].epoch = (i - 1) \div k
             /\ events[i].ev = "sched_step" =>
                   /\ events[i].x = events[events[i].epoch * k + 4].x
                   /\ Len(scheduler.metrics) >= events[i].epoch + 1
                   /\ scheduler.metrics[events[i].epoch + 1] = events[i].x
    /\ Len(scheduler.metrics) = Len(checkpoints) + (IF pc = "save" THEN 1 ELSE 0)
    /\ pc = "save" => events[Len(events)].ev = "sched_step"
    /\ (rm.active /\ rm.loader = "valid") => (~rm.train /\ rm.optimizer = "None")
    /\ (rm.active /\ rm.loader = "train") => (rm.train /\ rm.optimizer = "optimizer")

\* two whole epochs, with training and validation losses that differ
C8_Witness ==
    /\ pc = "done"
    /\ Len(scheduler.metrics) = 2
    /\ checkpoints[2].val # checkpoints[2].train
    /\ checkpoints[1].val # checkpoints[2].val

RECURSIVE SumSeq(_)
SumSeq(q) == IF q = <<>> THEN 0 ELSE q[1] + SumSeq(Tail(q))

\* C9: for a loader of n >= 1 batches run_model handles every batch once and
\* returns the sum of the n per-batch losses divided by n, with train=True and
\* with train=False.
C9_ReturnsAverageLoss ==
    pc \in {"after_train", "after_valid"} =>
        /\ Len(rm.losses) = loaders[rm.loader].batches
        /\ Len(rm.losses) >= 1
        /\ ret[2] > 0
        /\ ret[1] * Len(rm.losses) = SumSeq(rm.losses) * ret[2]

C9_Witness ==
    /\ pc = "after_valid"
    /\ rm.losses = <<1, 2>>
    /\ ret = <<3, 2>>
    /\ train_locals.train_loss = <<2, 1>>

\* C10: run_model on a loader without batches returns nothing and ends in the
\* division by zero; in train an empty train or valid loader ends the run in
\* the first epoch, before any scheduler step and any checkpoint.
C10_EmptyLoaderAborts ==
    /\ pc = "after_train" => loaders.train.batches >= 1
    /\ pc = "after_valid" => loaders.valid.batches >= 1
    /\ (TrainEntered /\ (loaders.train.batches = 0 \/ loaders.valid.batches = 0)) =>
          /\ scheduler.metrics = <<>>
          /\ checkpoints = <<>>
          /\ train_locals.epoch = 0
          /\ pc = "done" => args.epochs <= 0
          /\ pc \notin {"after_valid", "plot", "sched_step", "save"}
    /\ err = "ZeroDivisionError" =>
          /\ rm.active
          /\ loaders[rm.loader].batches = 0
          /\ rm.num_batches = 0
          /\ train_locals.epoch = 0
          /\ ret = (IF rm.loader = "train" THEN NoValue ELSE train_locals.train_loss)

\* the training pass ran and stepped, then the empty valid loader ended the run
C10_Witness ==
    /\ pc = "error"
    /\ err = "ZeroDivisionError"
    /\ rm.loader = "valid"
    /\ optimizer.steps >= 1
====
